---- MODULE Spec2Model ----
(***************************************************************************)
(* A model of mne/filter.py: the public FIR / IIR / spectrum-fit filters,  *)
(* the two FFT engines behind _filter, the overlap-add planner and the     *)
(* per-channel loops (serial and parallel).                                *)
(*                                                                         *)
(* Conventions.                                                            *)
(*  - An array is a record [shape, rows]: shape is the numpy shape, rows   *)
(*    the buffer seen as channel rows (product of the leading dimensions). *)
(*    Rows are numbered from 1 here (numpy row p is row p+1).              *)
(*  - A row value is [orig, ops]: the row it was at allocation and the     *)
(*    sequence of per-channel filter applications it went through.  The    *)
(*    numeric kernels (fft, firwin2, filtfilt, multitaper) are opaque, so  *)
(*    an application is recorded as a tag naming the engine and the        *)
(*    arguments the engine was given.                                      *)
(*  - None is encoded by NoPicks / NoLen / NoFft / NoFreqs.                *)
(*  - n_jobs is one of "1", "2" (integers), "cuda", "two" (a non-integer). *)
(*  - Frequencies are integers (a fixed rational unit of Hz).              *)
(*  - An iir_params dict is the set of its keys and the value of 'ftype';  *)
(*    defaults holds the default dict of every public filter.              *)
(*                                                                         *)
(* Spec is the machine of whole calls on arrays.  OlaSpec follows one      *)
(* channel through _overlap_add_filter and _1d_overlap_filter sample by    *)
(* sample (variable ola).                                                  *)
(***************************************************************************)
EXTENDS Integers, Sequences, FiniteSets, Bags, TLC

VARIABLES x, xf, err, args, out, defaults, ola

vars == <<x, xf, err, args, out, defaults, ola>>

(***************************************************************************)
(* Bounds of the model                                                     *)
(***************************************************************************)
MaxT == 5

MaxFilterLength == 4

MaxH == 6

MaxRows == 2

\* Sample-level model of one channel: channel length, kernel length and
\* the largest explicit FFT length
MaxL == 4

MaxTaps == 3

MaxNfft == 5

(***************************************************************************)
(* Encodings of None                                                       *)
(***************************************************************************)
NoPicks == <<0>>

NoLen == 0 - 1

NoFft == 0 - 1000

NoFreqs == <<0 - 1>>

(***************************************************************************)
(* Small helpers                                                           *)
(***************************************************************************)
Min(a, b) == IF a <= b THEN a ELSE b

RECURSIVE Pow2(_)
Pow2(k) == IF k <= 0 THEN 1 ELSE 2 * Pow2(k - 1)

\* np.floor(np.log2(n)) for n >= 1
RECURSIVE FloorLog2(_)
FloorLog2(n) == IF n <= 1 THEN 0 ELSE 1 + FloorLog2(n \div 2)

\* np.ceil(np.log2(n)) for n >= 1
CeilLog2(n) == IF Pow2(FloorLog2(n)) = n THEN FloorLog2(n) ELSE FloorLog2(n) + 1

\* np.ceil(a / b) for a >= 0, b >= 1 (true division)
CeilDiv(a, b) == (a + b - 1) \div b

RECURSIVE Prod(_)
Prod(s) == IF s = <<>> THEN 1 ELSE Head(s) * Prod(Tail(s))

Last(s) == s[Len(s)]

Front(s) == SubSeq(s, 1, Len(s) - 1)

Range(s) == {s[i] : i \in 1..Len(s)}

\* num != 0 and ((num & (num - 1)) == 0)
is_power2(num) == num > 0 /\ Pow2(FloorLog2(num)) = num

(***************************************************************************)
(* Row values and application tags                                         *)
(***************************************************************************)
Tag(eng, p, s) == [eng |-> eng, p |-> p, s |-> s]

Row0(i) == [orig |-> i, ops |-> <<>>]

Apply(row, tag) == [row EXCEPT !.ops = Append(@, tag)]

NRows(shape) == Prod(Front(shape))

FreshArray(shape) == [shape |-> shape, rows |-> [i \in 1..NRows(shape) |-> Row0(i)]]

(***************************************************************************)
(* Frames: the caller's array object and the array a filter works on.      *)
(* wobj says what the working array is: "caller" (the caller's own         *)
(* object), "view" (a new object on the caller's buffer) or "copy" (a new  *)
(* object on a new buffer).                                                *)
(***************************************************************************)
\* An iir_params dict is [keys, ftype]: the keys present and the value of
\* 'ftype' ("none" when absent).  NoDict stands for no dict at all.
NoDict == [keys |-> {}, ftype |-> "none"]

SetShape(F, sh) ==
    [F EXCEPT !.wshape = sh,
              !.cshape = IF F.wobj = "caller" THEN sh ELSE @]

SetRow(F, p, v) ==
    [F EXCEPT !.wrows = [@ EXCEPT ![p] = v],
              !.crows = IF F.wobj # "copy" THEN [@ EXCEPT ![p] = v] ELSE @]

Raise(F, e) == [F EXCEPT !.err = e]

\* Lines 218-223 of _prep_for_filtering; obj0 says whether x is the caller's
\* object ("caller") or the x.copy() of line 217 ("copy")
PrepFrame(cx, obj0, picks) ==
    LET orig_shape == cx.shape
        \* np.atleast_2d: the same object when ndim >= 2, else a new view
        obj1 == IF Len(cx.shape) >= 2 THEN obj0
                ELSE IF obj0 = "caller" THEN "view" ELSE obj0
        sh1 == IF Len(cx.shape) >= 2 THEN cx.shape ELSE <<1>> \o cx.shape
        F0 == [cshape |-> cx.shape, crows |-> cx.rows,
               wobj |-> obj1, wshape |-> sh1, wrows |-> cx.rows,
               orig_shape |-> orig_shape, picks |-> picks, err |-> "none",
               N |-> 0, engine |-> "none", extend_x |-> FALSE,
               n_fft |-> 0, n_seg |-> 0, n_segments |-> 0, plan |-> "none",
               gain_nyq |-> 0 - 1, n_h |-> 0, n_x |-> 0,
               nw |-> <<>>, used |-> <<>>, log |-> <<>>,
               coef |-> "none", padlen |-> "none", iir_arg |-> NoDict]
        \* x.shape = (np.prod(x.shape[:-1]), x.shape[-1])
        F1 == SetShape(F0, <<Prod(Front(sh1)), Last(sh1)>>)
    IN  [F1 EXCEPT !.picks = IF picks = NoPicks
                             THEN [i \in 1..F1.wshape[1] |-> i]
                             ELSE picks]

\* A _prep_for_filtering that never copies
PrepInPlace(cx, copy, picks) == PrepFrame(cx, "caller", picks)

\* def _prep_for_filtering(x, copy, picks)
_prep_for_filtering(cx, copy, picks) ==
    PrepFrame(cx, IF copy THEN "copy" ELSE "caller", picks)

\* A return without the shape restored
KeepFlatShape(F) == F

\* x.shape = orig_shape
RestoreShape(F) == SetShape(F, F.orig_shape)

(***************************************************************************)
(* One channel through _1d_overlap_filter, sample by sample.  Sample       *)
(* values are integers.  What a filtering pass puts into an output sample  *)
(* is a bag of pairs <<i, j>>: the product of sample i of the pass input   *)
(* (numbered from 0) and tap j of the impulse response of h_fft.           *)
(***************************************************************************)
\* The indices of s[start:stop] for a sequence of n elements
SliceUp(n, start, stop) ==
    LET a0 == IF start < 0 THEN start + n ELSE start
        a == IF a0 < 0 THEN 0 ELSE IF a0 > n THEN n ELSE a0
        b0 == IF stop < 0 THEN stop + n ELSE stop
        b == IF b0 < 0 THEN 0 ELSE IF b0 > n THEN n ELSE b0
    IN  [i \in 1..(IF b > a THEN b - a ELSE 0) |-> a + i - 1]

\* The indices of s[start:stop:-1] for a sequence of n elements
SliceDown(n, start, stop) ==
    LET a0 == IF start < 0 THEN start + n ELSE start
        a == IF a0 < 0 THEN 0 - 1 ELSE IF a0 >= n THEN n - 1 ELSE a0
        b0 == IF stop < 0 THEN stop + n ELSE stop
        b == IF b0 < 0 THEN 0 - 1 ELSE IF b0 >= n THEN n - 1 ELSE b0
    IN  [i \in 1..(IF a > b THEN a - b ELSE 0) |-> a - i + 1]

\* s[k] for a numpy index k >= 0
At(s, k) == s[k + 1]

\* np.flipud
flipud(s) == [i \in 1..Len(s) |-> s[Len(s) + 1 - i]]

\* An extension that repeats the mirrored samples as they are
MirrorEven(xs, n_edge) ==
    LET n == Len(xs)
        head == SliceDown(n, n_edge - 1, 0)
        tail == SliceDown(n, 0 - 2, 0 - n_edge - 1)
    IN  [i \in 1..Len(head) |-> At(xs, head[i])] \o xs
        \o [i \in 1..Len(tail) |-> At(xs, tail[i])]

\* Lines 149-150: np.r_[2 * x[0] - x[n_edge - 1:0:-1], x,
\*                      2 * x[-1] - x[-2:-n_edge - 1:-1]]
MirrorExtend(xs, n_edge) ==
    LET n == Len(xs)
        head == SliceDown(n, n_edge - 1, 0)
        tail == SliceDown(n, 0 - 2, 0 - n_edge - 1)
    IN  [i \in 1..Len(head) |-> 2 * At(xs, 0) - At(xs, head[i])] \o xs
        \o [i \in 1..Len(tail) |-> 2 * At(xs, n - 1) - At(xs, tail[i])]

\* np.zeros_like for an output of n samples
Zeros(n) == [i \in 1..n |-> EmptyBag]

\* Lines 163-165: the block of segment seg_idx.  The segment is
\* filter_input[s:s + n_seg], zero-padded to n_fft; fft_multiply_repeated
\* returns its circular convolution with the impulse response of h_fft,
\* whose non-zero taps are taps.
SegmentProd(n_x, s, n_seg, n_fft, taps) ==
    LET seg == SliceUp(n_x, s, s + n_seg)
    IN  [m \in 1..n_fft |->
            SetToBag({q \in {<<seg[i], j>> : i \in 1..Len(seg), j \in taps} :
                         (q[1] - s + q[2]) % n_fft = m - 1})]

\* Lines 166-170: the block added into x_filtered at offset s
AddBlock(x_filtered, prod, s, n_fft) ==
    LET n_x == Len(x_filtered)
        dst == IF s + n_fft < n_x THEN SliceUp(n_x, s, s + n_fft)
               ELSE SliceUp(n_x, s, n_x)
    IN  [k \in 1..n_x |->
            IF \E i \in 1..Len(dst) : dst[i] = k - 1
            THEN x_filtered[k] (+) prod[k - s]
            ELSE x_filtered[k]]

\* Line 173: x_filtered[n_edge - 1:-n_edge + 1]
StripEdges(x_filtered, n_edge) ==
    LET keep == SliceUp(Len(x_filtered), n_edge - 1, 1 - n_edge)
    IN  [i \in 1..Len(keep) |-> At(x_filtered, keep[i])]

\* Lines 109-116: the taps of the impulse response of h_fft.  Without
\* zero_phase they are the n_h taps of h.  With zero_phase every bin is
\* divided by the square root of its magnitude; for a one-tap kernel that
\* leaves one tap, for longer kernels the response in general fills the
\* whole block of n_fft samples.
ScaledTaps(n_h, n_fft, zero_phase) ==
    IF zero_phase /\ n_h >= 2 THEN 0..(n_fft - 1) ELSE 0..(n_h - 1)

(***************************************************************************)
(* The per-channel loops                                                   *)
(***************************************************************************)
\* for p in picks: x[p] = f(x[p])
RECURSIVE SerialLoop(_, _, _)
SerialLoop(F, picks, tag) ==
    IF picks = <<>> THEN F
    ELSE SerialLoop(SetRow(F, Head(picks), Apply(F.wrows[Head(picks)], tag)),
                    Tail(picks), tag)

\* for pp, p in enumerate(picks): x[p] = data_new[pp]
RECURSIVE StoreLoop(_, _, _, _)
StoreLoop(F, picks, data_new, pp) ==
    IF pp > Len(picks) THEN F
    ELSE StoreLoop(SetRow(F, picks[pp], data_new[pp]), picks, data_new, pp + 1)

\* data_new = parallel(p_fun(x[p], ...) for p in picks), then the store loop
ParallelLoop(F, picks, tag) ==
    LET data_new == [pp \in 1..Len(picks) |-> Apply(F.wrows[picks[pp]], tag)]
    IN  StoreLoop(F, picks, data_new, 1)

\* setup_cuda_fft_multiply_repeated(n_jobs, h_fft): 'cuda' runs as one job
setup_cuda_fft_multiply_repeated(n_jobs) == IF n_jobs = "cuda" THEN "1" ELSE n_jobs

IsInt(n_jobs) == n_jobs \in {"1", "2"}

(***************************************************************************)
(* The overlap-add planner and engine                                      *)
(***************************************************************************)
\* 2 ** np.arange(lo, hi): the exponents lo, lo+1, ..., hi-1
Arange(lo, hi) == [i \in 1..(IF hi > lo THEN hi - lo ELSE 0) |-> lo + i - 1]

\* np.ceil(n_tot / (N - n_h + 1)) * N * (np.log2(N) + 1), N = 2 ** k
\* ("/" is true division, so np.ceil rounds the quotient up)
Cost(n_tot, n_h, k) == CeilDiv(n_tot, Pow2(k) - n_h + 1) * Pow2(k) * (k + 1)

\* np.argmin: the first index of the least element (s not empty)
ArgMin(s) == CHOOSE i \in 1..Len(s) :
                 /\ \A j \in 1..Len(s) : s[i] <= s[j]
                 /\ \A j \in 1..(i - 1) : s[j] > s[i]

\* The exponents searched, lines 92-93
SearchExponents(n_h, n_tot) == Arange(CeilLog2(n_h), FloorLog2(n_tot))

\* A search branch also taken when the signal is as long as the kernel
UseSearchFromEqual(n_h, n_x) == n_x >= n_h

\* Line 89: the search branch is taken (else a single block is used)
UseSearch(n_h, n_x) == n_x > n_h

\* Lines 88-98: the FFT length when n_fft is None; 0 stands for the
\* ValueError np.argmin raises on an empty candidate list.
PlanFft(n_h, n_x, zero_phase) ==
    IF UseSearch(n_h, n_x)
    THEN LET n_tot == IF zero_phase THEN 2 * n_x ELSE n_x
             ks == SearchExponents(n_h, n_tot)
             cost == [i \in 1..Len(ks) |-> Cost(n_tot, n_h, ks[i])]
         IN  IF Len(ks) = 0 THEN 0 ELSE Pow2(ks[ArgMin(cost)])
    ELSE Pow2(CeilLog2(n_x + n_h - 1))

\* Line 100: the guard of 'n_fft is too short, has to be at least len(h)'
TooShort(n_fft, n_h) == n_fft <= 0

\* Length of what _1d_overlap_filter returns for a channel of length T:
\* x_ext has T + 2 * (n_edge - 1) samples and x_filtered[n_edge - 1:-n_edge + 1]
\* strips the edges; for n_edge = 1 the slice [0:0] is empty.
OverlapOutLen(T, n_edge) ==
    LET n_x == T + 2 * (n_edge - 1)
    IN  IF n_edge = 1 THEN 0 ELSE n_x - 2 * (n_edge - 1)

\* Lines 127-140 of _overlap_add_filter and the like: the row loop
RowLoop(F, n_jobs, tag, msg) ==
    IF n_jobs = "1" THEN SerialLoop(F, F.picks, tag)
    ELSE IF ~IsInt(n_jobs) THEN Raise(F, msg)
    ELSE ParallelLoop(F, F.picks, tag)

\* def _overlap_add_filter(x, h, n_fft=None, zero_phase=True, picks=None, n_jobs=1)
\* F.wshape is the 2-D shape of x; n_h = len(h).
_overlap_add_filter(F0, n_h, n_fft_arg, zero_phase, n_jobs_arg) ==
    LET F == [F0 EXCEPT !.picks = IF @ = NoPicks
                                  THEN [i \in 1..F0.wshape[1] |-> i] ELSE @,
                        !.engine = "overlap_add"]
        T == F.wshape[2]
        n_edge == Min(n_h, T)
        n_x == T + 2 * n_edge - 2
        planned == n_fft_arg = NoFft
        n_fft == IF planned THEN PlanFft(n_h, n_x, zero_phase) ELSE n_fft_arg
        n_seg == n_fft - n_h + 1
        n_segments == CeilDiv(n_x, n_seg)
        n_jobs == setup_cuda_fft_multiply_repeated(n_jobs_arg)
        tag == Tag("ola", <<n_h, n_edge, n_fft, n_seg, n_segments,
                            IF zero_phase THEN 1 ELSE 0>>, {})
        G == [F EXCEPT !.n_fft = n_fft, !.n_h = n_h, !.n_x = n_x,
                       !.plan = IF ~planned THEN "given"
                                ELSE IF UseSearch(n_h, n_x) THEN "search"
                                ELSE "single"]
        H == [G EXCEPT !.n_seg = n_seg, !.n_segments = n_segments]
    IN  IF planned /\ n_fft = 0
            THEN Raise(G, "attempt to get argmin of an empty sequence")
        ELSE IF TooShort(n_fft, n_h)
            THEN Raise(G, "n_fft is too short, has to be at least len(h)")
        ELSE IF n_fft - n_h < 0
            THEN Raise(G, "negative dimensions are not allowed")
        ELSE IF n_jobs # "1" /\ ~IsInt(n_jobs)
            THEN Raise(H, "n_jobs must be an integer, or cuda")
        ELSE IF F.picks # <<>> /\ OverlapOutLen(T, n_edge) # T
            THEN Raise(H, "could not broadcast input array")
        ELSE RowLoop(H, n_jobs, tag, "n_jobs must be an integer, or cuda")

(***************************************************************************)
(* _filter: the two FFT engines                                            *)
(***************************************************************************)
\* Line 274: the direct engine is used when this holds
UseDirect(T, filter_length) == filter_length = NoLen \/ T <= filter_length

\* Lines 280-281 and 316-317: N has to be changed by one
NeedsAdjust(gain_nyq, N) ==
    \/ (gain_nyq = 0 /\ N % 2 = 1)
    \/ (gain_nyq = 1 /\ N % 2 # 1)

\* The length handed to firwin2, lines 285 and 314-319
KernelLength(gain_nyq, N) == IF NeedsAdjust(gain_nyq, N) THEN N + 1 ELSE N

\* def _filter(x, Fs, freq, gain, filter_length=None, picks=None, n_jobs=1, copy=True)
\* gain_nyq is gain[-1].
_filter(cx, gain_nyq, filter_length, picks, n_jobs_arg, copy) ==
    LET F == [_prep_for_filtering(cx, copy, picks) EXCEPT !.gain_nyq = gain_nyq]
        T == F.wshape[2]
    IN  IF UseDirect(T, filter_length)
        THEN LET extend_x == NeedsAdjust(gain_nyq, T)
                 N == KernelLength(gain_nyq, T)
                 n_jobs == setup_cuda_fft_multiply_repeated(n_jobs_arg)
                 tag == Tag("fft", <<N, IF extend_x THEN 1 ELSE 0>>, {})
                 G == [F EXCEPT !.N = N, !.engine = "direct",
                                !.extend_x = extend_x]
                 R == RowLoop(G, n_jobs, tag, "n_jobs must be an integer, or cuda")
             IN  IF R.err # "none" THEN R ELSE RestoreShape(R)
        ELSE LET N == KernelLength(gain_nyq, filter_length)
                 G == [F EXCEPT !.N = N]
                 R == _overlap_add_filter(G, N, NoFft, TRUE, n_jobs_arg)
             IN  IF R.err # "none" THEN R ELSE RestoreShape(R)

(***************************************************************************)
(* IIR filtering                                                           *)
(***************************************************************************)
\* The filter types scipy.signal.filter_dict knows
filter_dict == {"butter", "cheby1", "cheby2", "ellip", "bessel"}

\* A triage that looks at 'order' first
OrderFirst(keys) ==
    IF "order" \in keys THEN "iirfilter"
    ELSE IF "a" \in keys /\ "b" \in keys THEN "given" ELSE "iirdesign"

\* Lines 453-478: where b and a come from: the dict ("given"),
\* scipy.signal.iirfilter or scipy.signal.iirdesign
DesignRoute(keys) ==
    IF "a" \in keys /\ "b" \in keys THEN "given"
    ELSE IF "order" \in keys THEN "iirfilter" ELSE "iirdesign"

\* An update that is always made on the dict passed in
UpdatesInPlace(return_copy) == FALSE

\* Lines 489-490: the dict is deep-copied before it is updated
CopiesDict(return_copy) == return_copy

\* def construct_iir_filter(iir_params, f_pass, f_stop, sfreq, btype, return_copy=True)
\* The result says where the coefficients and the pad length come from, and
\* what the dict passed in looks like afterwards (arg_keys).
construct_iir_filter(iir_params, return_copy) ==
    LET keys == iir_params.keys
        given == "a" \in keys /\ "b" \in keys
        coef == DesignRoute(keys)
        e == IF given THEN "none"
             ELSE IF "ftype" \notin keys
                 THEN "ftype must be an entry in iir_params"
             ELSE IF iir_params.ftype \notin filter_dict
                 THEN "ftype must be in filter_dict"
             ELSE IF "order" \in keys THEN "none"
             ELSE IF "gpass" \notin keys \/ "gstop" \notin keys
                 THEN "iir_params must have at least gstop and gpass"
             ELSE "none"
        padlen == IF "padlen" \notin keys THEN "estimated" ELSE "given"
        new_keys == keys \cup {"b", "a", "padlen"}
    IN  [err |-> e,
         coef |-> IF e = "none" THEN coef ELSE "none",
         padlen |-> IF e = "none" THEN padlen ELSE "none",
         keys |-> IF e = "none" THEN new_keys ELSE keys,
         arg_keys |-> IF e = "none" /\ ~CopiesDict(return_copy)
                      THEN new_keys ELSE keys]

\* def _filtfilt(x, b, a, padlen, picks, n_jobs, copy); band names (b, a)
_filtfilt(cx, band, picks, n_jobs, copy) ==
    LET F == [_prep_for_filtering(cx, copy, picks) EXCEPT !.engine = "iir"]
        tag == Tag("iir", <<band>>, {})
        R == RowLoop(F, n_jobs, tag, "n_jobs must be an integer for IIR filtering")
    IN  IF R.err # "none" THEN R ELSE RestoreShape(R)

\* A frame for an error raised before the array is touched
Untouched(cx, e) ==
    [cshape |-> cx.shape, crows |-> cx.rows,
     wobj |-> "caller", wshape |-> cx.shape, wrows |-> cx.rows,
     orig_shape |-> cx.shape, picks |-> NoPicks, err |-> e,
     N |-> 0, engine |-> "none", extend_x |-> FALSE,
     n_fft |-> 0, n_seg |-> 0, n_segments |-> 0, plan |-> "none",
     gain_nyq |-> 0 - 1, n_h |-> 0, n_x |-> 0,
     nw |-> <<>>, used |-> <<>>, log |-> <<>>,
     coef |-> "none", padlen |-> "none", iir_arg |-> NoDict]

\* The caller's array as a frame leaves it
CallerOf(F) == [shape |-> F.cshape, rows |-> F.crows]

\* A frame with what construct_iir_filter returned (c) for the dict
\* iir_params: the source of b, a and padlen, and the caller's dict object
\* as the call leaves it
WithIir(F, c, iir_params) ==
    [F EXCEPT !.coef = c.coef, !.padlen = c.padlen,
              !.iir_arg = [keys |-> c.arg_keys, ftype |-> iir_params.ftype]]

(***************************************************************************)
(* Spectrum fit (multitaper line removal)                                  *)
(***************************************************************************)
\* The sampling rate used by every call of the model: 6 bins of 400 units
Fs == 6 * 400

\* A notch width is an exact rational num / den (den a power of two)
Rat(n) == [num |-> n, den |-> 1]

\* notch_widths /= 2.0 on one element (line 1106)
Halve(w) == [num |-> w.num, den |-> 2 * w.den]

Abs(a) == IF a < 0 THEN 0 - a ELSE a

\* The frequency axis returned by _mt_spectra (line 1074): bin k, for
\* k = 0 .. n_times // 2, is at k * sfreq / n_times.
MtBins(n_times) == 0..(n_times \div 2)

\* np.argmin(np.abs(freqs - lf)), line 1104 (scaled by n_times)
NearestBin(lf, n_times) ==
    CHOOSE k \in MtBins(n_times) :
        /\ \A j \in MtBins(n_times) :
              Abs(k * Fs - lf * n_times) <= Abs(j * Fs - lf * n_times)
        /\ \A j \in MtBins(n_times) :
              j < k => Abs(j * Fs - lf * n_times) > Abs(k * Fs - lf * n_times)

\* np.logical_and(freqs > lf - nw, freqs < lf + nw), line 1107
\* (scaled by n_times * nw.den)
InNotch(k, lf, nw, n_times) ==
    /\ k * Fs * nw.den > (lf * nw.den - nw.num) * n_times
    /\ k * Fs * nw.den < (lf * nw.den + nw.num) * n_times

\* np.inf as a denominator of the F statistic
Inf == 0 - 1

\* A denominator left as computed
KeepDen(den) == den

\* Line 1094: den[den == 0] = np.inf
MaskZeroDen(den) == IF den = 0 THEN Inf ELSE den

\* Lines 1095 and 1100: num / den > threshold, for num >= 0, den >= 0 or
\* Inf, threshold >= 0 (num / inf is 0; num / 0 is inf, and nan for 0 / 0)
Exceeds(num, den, threshold) ==
    IF den = Inf THEN 0 > threshold
    ELSE IF den = 0 THEN num > 0
    ELSE num > threshold * den

\* Lines 1090-1100: the bins the F test flags; fstat.stat[k + 1] holds num
\* and den of bin k, fstat.threshold the value of stats.f.ppf
Significant(fstat, n_times) ==
    {k \in MtBins(n_times) :
        Exceeds(fstat.stat[k + 1].num, MaskZeroDen(fstat.stat[k + 1].den),
                fstat.threshold)}

\* def _mt_spectrum_remove(x, sfreq, line_freqs, notch_widths, mt_bandwidth, p_value)
\* Returns the filtered row, the removed bins and notch_widths as it leaves it.
_mt_spectrum_remove(row, n_times, line_freqs, notch_widths, fstat) ==
    IF line_freqs = NoFreqs
    THEN LET indices == Significant(fstat, n_times)
         IN  [row |-> Apply(row, Tag("mt", <<>>, indices)),
              rm_freqs |-> indices, notch_widths |-> notch_widths]
    ELSE LET indices_1 == {NearestBin(line_freqs[i], n_times) :
                              i \in 1..Len(line_freqs)}
             halved == [i \in 1..Len(notch_widths) |-> Halve(notch_widths[i])]
             indices_2 == {k \in MtBins(n_times) :
                              \E i \in 1..Min(Len(line_freqs), Len(halved)) :
                                  InNotch(k, line_freqs[i], halved[i], n_times)}
             indices == indices_1 \cup indices_2
         IN  [row |-> Apply(row, Tag("mt", <<>>, indices)),
              rm_freqs |-> indices, notch_widths |-> halved]

\* Lines 999-1005: for ii, x_ in enumerate(x): if ii in picks: ...
RECURSIVE MtSerial(_, _, _, _)
MtSerial(F, ii, line_freqs, fstat) ==
    IF ii > F.wshape[1] THEN F
    ELSE IF ii \notin Range(F.picks) THEN MtSerial(F, ii + 1, line_freqs, fstat)
    ELSE LET r == _mt_spectrum_remove(F.wrows[ii], F.wshape[2], line_freqs,
                                      F.nw, fstat)
             G == [SetRow(F, ii, r.row) EXCEPT
                      !.nw = r.notch_widths,
                      !.used = Append(@, r.notch_widths),
                      !.log = Append(@, r.rm_freqs)]
         IN  MtSerial(G, ii + 1, line_freqs, fstat)

\* Lines 1010-1013: the parallel map over the picked rows, in row order.
\* share says whether the workers get the caller's argument objects (the
\* executor runs in this process) or pickled copies (worker processes).
\* F.log collects the lists d[1], F.used the widths each task used.
RECURSIVE MtParallelMap(_, _, _, _, _, _)
MtParallelMap(F, ii, line_freqs, fstat, share, data_new) ==
    IF ii > F.wshape[1] THEN [F |-> F, data_new |-> data_new]
    ELSE IF ii \notin Range(F.picks)
        THEN MtParallelMap(F, ii + 1, line_freqs, fstat, share, data_new)
    ELSE LET r == _mt_spectrum_remove(F.wrows[ii], F.wshape[2], line_freqs,
                                      F.nw, fstat)
             G == [F EXCEPT
                      !.nw = IF share THEN r.notch_widths ELSE @,
                      !.used = Append(@, r.notch_widths),
                      !.log = Append(@, r.rm_freqs)]
         IN  MtParallelMap(G, ii + 1, line_freqs, fstat, share,
                           Append(data_new, r.row))

\* Line 1016: x[picks, :] = data_new
MtStore(F, data_new) ==
    IF Len(data_new) # Len(F.picks)
    THEN Raise(F, "shape mismatch: value array could not be broadcast")
    ELSE StoreLoop(F, F.picks, data_new, 1)

\* A report for every entry of freq_list, whatever the mode
ReportAlways(freq_list, line_freqs) == freq_list

\* Lines 1019-1025: the messages logged, one for every entry of freq_list
\* (the empty ones too) when line_freqs is None, none otherwise
Report(freq_list, line_freqs) ==
    IF line_freqs = NoFreqs THEN freq_list ELSE <<>>

\* def _mt_spectrum_proc(x, sfreq, line_freqs, notch_widths, mt_bandwidth,
\*                       p_value, picks, n_jobs, copy)
_mt_spectrum_proc(cx, line_freqs, notch_widths, fstat, picks, n_jobs, copy, share) ==
    LET F == [_prep_for_filtering(cx, copy, picks) EXCEPT
                 !.engine = "spectrum_fit", !.nw = notch_widths]
        R == IF n_jobs = "1" THEN MtSerial(F, 1, line_freqs, fstat)
             ELSE IF ~IsInt(n_jobs) THEN Raise(F, "n_jobs must be an integer")
             ELSE LET m == MtParallelMap(F, 1, line_freqs, fstat, share, <<>>)
                  IN  MtStore(m.F, m.data_new)
        L == [R EXCEPT !.log = Report(@, line_freqs)]
    IN  IF R.err # "none" THEN R ELSE RestoreShape(L)

(***************************************************************************)
(* The public filters.  Each returns the frame the call ends in.           *)
(***************************************************************************)
\* method = 'fft' / 'iir' branches shared by the public filters
FirOrIir(cx, gain_nyq, filter_length, method, iir_params, nbands, picks, n_jobs, copy) ==
    IF method = "fft"
    THEN _filter(cx, gain_nyq, filter_length, picks, n_jobs, copy)
    ELSE LET c == construct_iir_filter(iir_params, TRUE)
         IN  IF c.err # "none" THEN WithIir(Untouched(cx, c.err), c, iir_params)
             ELSE WithIir(_filtfilt(cx, nbands, picks, n_jobs, copy), c, iir_params)

\* def low_pass_filter(x, Fs, Fp, filter_length, trans_bandwidth, method,
\*                     iir_params, picks, n_jobs, copy)
low_pass_filter(cx, Fp, filter_length, trans_bandwidth, method, iir_params, picks, n_jobs, copy) ==
    IF method \notin {"fft", "iir"}
    THEN Untouched(cx, "method should be fft or iir")
    \* gain = [1, 1, 0, 0]
    ELSE FirOrIir(cx, 0, filter_length, method, iir_params, 1, picks, n_jobs, copy)

\* def high_pass_filter(...)
high_pass_filter(cx, Fp, filter_length, trans_bandwidth, method, iir_params, picks, n_jobs, copy) ==
    IF method \notin {"fft", "iir"}
    THEN Untouched(cx, "method should be fft or iir")
    ELSE IF Fp - trans_bandwidth <= 0
    THEN Untouched(cx, "Filter specification invalid: Stop frequency too low")
    \* gain = [0, 0, 1, 1]
    ELSE FirOrIir(cx, 1, filter_length, method, iir_params, 1, picks, n_jobs, copy)

\* def band_pass_filter(...)
band_pass_filter(cx, Fp1, Fp2, filter_length, l_trans_bandwidth, h_trans_bandwidth, method, iir_params, picks, n_jobs, copy) ==
    IF method \notin {"fft", "iir"}
    THEN Untouched(cx, "method should be fft or iir")
    ELSE IF Fp1 - l_trans_bandwidth <= 0
    THEN Untouched(cx, "Filter specification invalid: Lower stop frequency too low")
    \* gain = [0, 0, 1, 1, 0, 0]
    ELSE FirOrIir(cx, 0, filter_length, method, iir_params, 1, picks, n_jobs, copy)

\* np.argsort on the control points: insertion of a point [f, g] by frequency
RECURSIVE InsertPoint(_, _)
InsertPoint(s, pt) ==
    IF s = <<>> THEN <<pt>>
    ELSE IF pt.f < Head(s).f THEN <<pt>> \o s
    ELSE <<Head(s)>> \o InsertPoint(Tail(s), pt)

RECURSIVE SortPoints(_)
SortPoints(s) == IF s = <<>> THEN <<>>
                 ELSE InsertPoint(SortPoints(Front(s)), Last(s))

\* Lines 681-686: the control points of a band-stop filter, sorted
StopPoints(Fp1, Fs1, Fs2, Fp2) ==
    LET pts(fs, g) == [i \in 1..Len(fs) |-> [f |-> fs[i], g |-> g]]
    IN  SortPoints(<<[f |-> 0, g |-> 1]>> \o pts(Fp1, 1) \o pts(Fs1, 0)
                   \o pts(Fs2, 0) \o pts(Fp2, 1) \o <<[f |-> Fs \div 2, g |-> 1]>>)

\* A separation check that accepts everything
AlwaysSeparated(pts) == FALSE

\* Line 687: np.any(np.abs(np.diff(gain, 2)) > 1)
NotSeparated(pts) ==
    \E i \in 1..(Len(pts) - 2) :
        Abs(pts[i + 2].g - 2 * pts[i + 1].g + pts[i].g) > 1

\* Lines 691-696: one construct / _filtfilt round per stop band
RECURSIVE StopBandLoop(_, _, _, _, _, _, _)
StopBandLoop(F, k, nbands, iir_params, picks, n_jobs, copy) ==
    IF k > nbands THEN F
    ELSE LET c == construct_iir_filter(iir_params, TRUE)
             G == IF c.err # "none" THEN Untouched(CallerOf(F), c.err)
                  ELSE _filtfilt(CallerOf(F), k, picks, n_jobs, copy)
             H == WithIir(G, c, iir_params)
         IN  IF H.err # "none" THEN H
             ELSE StopBandLoop(H, k + 1, nbands, H.iir_arg, picks, n_jobs, copy)

\* def band_stop_filter(...); Fp1, Fp2 are sequences (np.atleast_1d)
band_stop_filter(cx, Fp1, Fp2, filter_length, l_trans_bandwidth, h_trans_bandwidth, method, iir_params, picks, n_jobs, copy) ==
    LET Fs1 == [i \in 1..Len(Fp1) |-> Fp1[i] + l_trans_bandwidth]
        Fs2 == [i \in 1..Len(Fp2) |-> Fp2[i] - h_trans_bandwidth]
        pts == StopPoints(Fp1, Fs1, Fs2, Fp2)
    IN  IF method \notin {"fft", "iir"}
        THEN Untouched(cx, "method should be fft or iir")
        ELSE IF Len(Fp1) # Len(Fp2)
        THEN Untouched(cx, "Fp1 and Fp2 must be the same length")
        ELSE IF \E i \in 1..Len(Fs1) : Fs1[i] <= 0
        THEN Untouched(cx, "Filter specification invalid: Lower stop frequency too low")
        ELSE IF method = "fft"
        THEN IF NotSeparated(pts)
             THEN Untouched(cx, "Stop bands are not sufficiently separated.")
             ELSE _filter(cx, Last(pts).g, filter_length, picks, n_jobs, copy)
        ELSE IF Len(Fp1) = 0
        THEN Untouched(cx, "local variable xf referenced before assignment")
        ELSE StopBandLoop(Untouched(cx, "none"), 1, Len(Fp1), iir_params,
                          picks, n_jobs, copy)

\* Encoding of notch_widths=None
NoWidths == <<0 - 1000>>

\* Lines 964-972: notch_widths as notch_filter normalises it
NotchWidths(freqs, notch_widths) ==
    IF notch_widths = NoWidths
    THEN [i \in 1..Len(freqs) |-> freqs[i] \div 200]
    ELSE IF Len(notch_widths) = 1
    THEN [i \in 1..Len(freqs) |-> notch_widths[1]]
    ELSE notch_widths

\* def notch_filter(x, Fs, freqs, filter_length, notch_widths, trans_bandwidth,
\*                  method, iir_params, mt_bandwidth, p_value, picks, n_jobs, copy)
\* (freqs, notch_widths and trans_bandwidth are even multiples of the unit,
\* so the divisions by 2 and by 200 are exact)
notch_filter(cx, freqs, filter_length, notch_widths, trans_bandwidth, method, iir_params, fstat, picks, n_jobs, copy, share) ==
    LET widths == NotchWidths(freqs, notch_widths)
        tb_2 == trans_bandwidth \div 2
        lows == [i \in 1..Len(freqs) |-> freqs[i] - widths[i] \div 2 - tb_2]
        highs == [i \in 1..Len(freqs) |-> freqs[i] + widths[i] \div 2 + tb_2]
    IN  IF method \notin {"fft", "iir", "spectrum_fit"}
        THEN Untouched(cx, "method should be fft, iir, or spectrum_fit")
        ELSE IF freqs = NoFreqs /\ method # "spectrum_fit"
        THEN Untouched(cx, "freqs=None can only be used with method spectrum_fit")
        ELSE IF freqs # NoFreqs /\ notch_widths # NoWidths
                /\ \E i \in 1..Len(notch_widths) : notch_widths[i] < 0
        THEN Untouched(cx, "notch_widths must be >= 0")
        ELSE IF freqs # NoFreqs /\ notch_widths # NoWidths
                /\ Len(notch_widths) # 1 /\ Len(notch_widths) # Len(freqs)
        THEN Untouched(cx, "notch_widths must be None, scalar, or the same length as freqs")
        ELSE IF method \in {"fft", "iir"}
        THEN band_stop_filter(cx, lows, highs, filter_length, tb_2, tb_2,
                              method, iir_params, picks, n_jobs, copy)
        ELSE _mt_spectrum_proc(cx, freqs,
                               IF freqs = NoFreqs THEN <<>>
                               ELSE [i \in 1..Len(widths) |-> Rat(widths[i])],
                               fstat, picks, n_jobs, copy, share)

(***************************************************************************)
(* Inputs of the calls                                                     *)
(***************************************************************************)
\* Leading dimensions of the caller's array: 1-D, 2-D and 3-D inputs
Leads == {<<>>, <<MaxRows>>, <<1, 2>>}

Shapes == {lead \o <<T>> : lead \in Leads, T \in 1..MaxT}

\* picks: None, the empty list, and lists of distinct rows in any order
PickSets(n) ==
    {NoPicks, <<>>} \cup {<<i>> : i \in 1..n}
        \cup {<<q[1], q[2]>> : q \in {r \in (1..n) \X (1..n) : r[1] # r[2]}}

NJobs == {"1", "2", "cuda", "two"}

Lengths == {NoLen} \cup 1..MaxFilterLength

DefaultIir == [keys |-> {"order", "ftype"}, ftype |-> "butter"]

\* The dicts a caller passes: like the default; without 'ftype'; designed
\* coefficients with and without 'padlen'; an unknown 'ftype'; a gpass /
\* gstop design, complete and without 'gstop'; 'b' and 'a' next to 'order';
\* 'b' alone next to 'order' and 'padlen'
IirParamSets ==
    {DefaultIir,
     [keys |-> {"order"}, ftype |-> "none"],
     [keys |-> {"b", "a", "padlen"}, ftype |-> "none"],
     [keys |-> {"b", "a"}, ftype |-> "none"],
     [keys |-> {"order", "ftype"}, ftype |-> "bogus"],
     [keys |-> {"ftype", "gpass", "gstop"}, ftype |-> "cheby1"],
     [keys |-> {"ftype", "gpass"}, ftype |-> "cheby1"],
     [keys |-> {"b", "a", "order", "ftype"}, ftype |-> "butter"],
     [keys |-> {"b", "order", "ftype", "padlen"}, ftype |-> "butter"]}

\* The public filters, each with a default iir_params dict of its own
Public == {"low_pass", "high_pass", "band_pass", "band_stop", "notch"}

\* The F statistics of a call that computes none
NoFStat == [stat |-> <<>>, threshold |-> 0]

DefArgs ==
    [entry |-> "none", shape |-> <<>>, method |-> "fft", copy |-> TRUE,
     n_jobs |-> "1", picks |-> NoPicks, filter_length |-> NoLen,
     Fp1 |-> <<>>, Fp2 |-> <<>>, trans |-> 0, iir |-> NoDict,
     freqs |-> NoFreqs, widths |-> NoWidths, fstat |-> NoFStat, share |-> FALSE,
     n_h |-> 0, n_fft |-> NoFft, zero_phase |-> TRUE, return_copy |-> TRUE]

\* The copy / n_jobs / picks combinations for an array of shape sh (picks
\* vary with the integer n_jobs, the ones that reach the row loops)
LoopArgs(entry, sh) ==
    {[DefArgs EXCEPT !.entry = entry, !.shape = sh, !.copy = c,
                     !.n_jobs = j, !.picks = p] :
        c \in BOOLEAN, j \in {"1", "2"}, p \in PickSets(NRows(sh))}
    \cup {[DefArgs EXCEPT !.entry = entry, !.shape = sh, !.copy = c,
                          !.n_jobs = j] :
        c \in BOOLEAN, j \in NJobs}

\* ... combined with the method: 'fft' with a filter length, 'iir' with an
\* iir_params dict, and an unknown method name
MethodArgs(entry, sh) ==
    {[a EXCEPT !.filter_length = fl] :
        a \in LoopArgs(entry, sh), fl \in Lengths}
    \cup {[a EXCEPT !.method = "iir"] : a \in LoopArgs(entry, sh)}
    \cup {[DefArgs EXCEPT !.entry = entry, !.shape = sh, !.copy = c,
                          !.method = "iir", !.iir = ip] :
        c \in BOOLEAN, ip \in IirParamSets}
    \cup {[DefArgs EXCEPT !.entry = entry, !.shape = sh, !.copy = c,
                          !.method = "fir"] : c \in BOOLEAN}

\* A band specification rejected before filtering does not read the rest
BadBandArgs(entry, sh) ==
    {[DefArgs EXCEPT !.entry = entry, !.shape = sh, !.copy = c, !.method = m] :
        c \in BOOLEAN, m \in {"fft", "iir"}}

NoResult == [shape |-> <<>>, rows |-> <<>>, buf |-> "none"]

NoOut == [engine |-> "none", N |-> 0, extend_x |-> FALSE, n_fft |-> 0,
          n_seg |-> 0, n_segments |-> 0, plan |-> "none",
          gain_nyq |-> 0 - 1, n_h |-> 0, n_x |-> 0,
          nw |-> <<>>, used |-> <<>>, log |-> <<>>,
          coef |-> "none", padlen |-> "none", iir_arg |-> NoDict]

\* The iir_params of a call: the dict the caller passes, or the default dict
\* of the function called when the caller passes none
IirOf(a) == IF a.iir = NoDict THEN defaults[a.entry] ELSE a.iir

\* The state a call that ends in frame R leaves behind
Returns(a, R) ==
    /\ x' = CallerOf(R)
    /\ xf' = IF R.err # "none" THEN NoResult
             ELSE [shape |-> R.wshape, rows |-> R.wrows,
                   buf |-> IF R.wobj = "copy" THEN "copy" ELSE "caller"]
    /\ err' = R.err
    /\ args' = a
    /\ out' = [engine |-> R.engine, N |-> R.N, extend_x |-> R.extend_x,
               n_fft |-> R.n_fft, n_seg |-> R.n_seg,
               n_segments |-> R.n_segments, plan |-> R.plan,
               gain_nyq |-> R.gain_nyq, n_h |-> R.n_h, n_x |-> R.n_x,
               nw |-> R.nw, used |-> R.used, log |-> R.log,
               coef |-> R.coef, padlen |-> R.padlen, iir_arg |-> R.iir_arg]
    /\ defaults' = IF a.entry \in Public /\ a.iir = NoDict /\ R.iir_arg # NoDict
                   THEN [defaults EXCEPT ![a.entry] = R.iir_arg]
                   ELSE defaults
    /\ UNCHANGED ola

\* The sample-level state of a channel that is not being filtered
OlaIdle ==
    [pc |-> "idle", x |-> <<>>, n_h |-> 0, n_fft_arg |-> NoFft,
     zero_phase |-> FALSE, n_edge |-> 0, n_x |-> 0, n_fft |-> 0, n_seg |-> 0,
     n_segments |-> 0, taps |-> {}, x_ext |-> <<>>, pass_no |-> 0,
     seg_idx |-> 0, x_filtered |-> <<>>, err |-> "none",
     filter_input |-> <<>>, flips |-> 0]

(***************************************************************************)
(* The state machine: the caller allocates an array, calls one filter on   *)
(* it and looks at what the call left.                                     *)
(***************************************************************************)
Init ==
    /\ x \in {FreshArray(sh) : sh \in Shapes}
    /\ xf = NoResult
    /\ err = "none"
    /\ args = DefArgs
    /\ out = NoOut
    /\ defaults = [f \in Public |-> DefaultIir]
    /\ ola = OlaIdle

\* The caller sets the input up again for the next call
Allocate ==
    /\ args.entry # "none"
    /\ x' = FreshArray(args.shape)
    /\ xf' = NoResult
    /\ err' = "none"
    /\ args' = DefArgs
    /\ out' = NoOut
    /\ UNCHANGED <<defaults, ola>>

\* Band-stop specifications: one band, two separated bands; and the
\* rejected ones: interleaved bands, lengths that differ, a stop edge <= 0
GoodStops == {<< <<200>>, <<600>> >>, << <<200, 700>>, <<500, 1000>> >>}

BadStops == {<< <<200, 400>>, <<600, 800>> >>, << <<200>>, <<600, 800>> >>,
             << <<0 - 100>>, <<600>> >>}

\* Further band-stop specifications: two separated bands given in descending
\* order, two bands that share an edge, a band inside another one, and one
\* band narrower than its two transition bands
EdgeStops == {<< <<700, 200>>, <<1000, 500>> >>, << <<200, 500>>, <<500, 800>> >>,
              << <<200, 400>>, <<1000, 700>> >>, << <<200>>, <<250>> >>}

\* Notch specifications [freqs, notch_widths]
GoodNotches == {<< <<400>>, NoWidths >>, << <<400>>, <<1600>> >>,
                << <<400, 800>>, <<800, 1600>> >>}

BadNotches == {<< <<400>>, <<0 - 2>> >>, << <<400>>, <<2, 2>> >>}

\* F statistics for auto-detect, num and den of the bins 0, 1, 2, ...: no
\* line; a line at bin 1; a line at bin 0 and a bin 1 that the fit leaves
\* no residual for (den = 0) with a large and with a zero amplitude
FStat(nd0, nd1) ==
    [k \in 1..(MaxT \div 2 + 1) |->
        IF k = 1 THEN [num |-> nd0[1], den |-> nd0[2]]
        ELSE IF k = 2 THEN [num |-> nd1[1], den |-> nd1[2]]
        ELSE [num |-> 0, den |-> 1]]

FStatSets ==
    {[stat |-> FStat(<<0, 1>>, <<0, 1>>), threshold |-> 2],
     [stat |-> FStat(<<0, 1>>, <<9, 1>>), threshold |-> 2],
     [stat |-> FStat(<<9, 1>>, <<9, 0>>), threshold |-> 2],
     [stat |-> FStat(<<9, 1>>, <<0, 0>>), threshold |-> 0]}

\* Explicit FFT lengths for direct calls of _overlap_add_filter
FftLengths == {NoFft} \cup 0..(MaxH + 2)

LowPassArgs(sh) ==
    {[a EXCEPT !.Fp1 = <<600>>, !.trans = 200] : a \in MethodArgs("low_pass", sh)}

HighPassArgs(sh) ==
    {[a EXCEPT !.Fp1 = <<600>>, !.trans = 200] : a \in MethodArgs("high_pass", sh)}
    \cup {[a EXCEPT !.Fp1 = <<600>>, !.trans = 600] : a \in BadBandArgs("high_pass", sh)}

BandPassArgs(sh) ==
    {[a EXCEPT !.Fp1 = <<400>>, !.Fp2 = <<800>>, !.trans = 200] :
        a \in MethodArgs("band_pass", sh)}
    \cup {[a EXCEPT !.Fp1 = <<400>>, !.Fp2 = <<800>>, !.trans = 400] :
        a \in BadBandArgs("band_pass", sh)}

BandStopArgs(sh) ==
    {[a EXCEPT !.Fp1 = g[1], !.Fp2 = g[2], !.trans = 100] :
        a \in MethodArgs("band_stop", sh), g \in GoodStops}
    \cup {[a EXCEPT !.Fp1 = g[1], !.Fp2 = g[2], !.trans = 100] :
        a \in BadBandArgs("band_stop", sh), g \in BadStops \cup EdgeStops}

NotchArgs(sh) ==
    {[a EXCEPT !.freqs = <<400>>, !.trans = 200] : a \in MethodArgs("notch", sh)}
    \cup {[a EXCEPT !.freqs = g[1], !.widths = g[2], !.trans = 200] :
        a \in BadBandArgs("notch", sh), g \in BadNotches}
    \cup {[a EXCEPT !.trans = 200] : a \in BadBandArgs("notch", sh)}
    \cup {[a EXCEPT !.method = "spectrum_fit", !.freqs = g[1], !.widths = g[2],
                    !.share = s, !.trans = 200] :
        a \in LoopArgs("notch", sh), g \in GoodNotches, s \in BOOLEAN}
    \cup {[a EXCEPT !.method = "spectrum_fit", !.fstat = f, !.trans = 200] :
        a \in LoopArgs("notch", sh), f \in FStatSets}

OverlapAddArgs(sh) ==
    {[DefArgs EXCEPT !.entry = "overlap_add", !.shape = sh, !.copy = FALSE,
                     !.n_h = n_h, !.n_fft = n_fft, !.zero_phase = zp,
                     !.picks = p, !.n_jobs = j] :
        n_h \in 1..MaxH, n_fft \in FftLengths, zp \in BOOLEAN,
        p \in {NoPicks, <<2, 1>>}, j \in {"1", "2"}}

ConstructArgs(sh) ==
    {[DefArgs EXCEPT !.entry = "construct_iir", !.shape = sh, !.iir = ip,
                     !.return_copy = rc] :
        ip \in IirParamSets, rc \in BOOLEAN}

LowPass ==
    /\ args.entry = "none"
    /\ \E a \in LowPassArgs(x.shape) :
          Returns(a, low_pass_filter(x, a.Fp1[1], a.filter_length, a.trans,
                                       a.method, IirOf(a), a.picks, a.n_jobs, a.copy))

HighPass ==
    /\ args.entry = "none"
    /\ \E a \in HighPassArgs(x.shape) :
          Returns(a, high_pass_filter(x, a.Fp1[1], a.filter_length, a.trans,
                                        a.method, IirOf(a), a.picks, a.n_jobs, a.copy))

BandPass ==
    /\ args.entry = "none"
    /\ \E a \in BandPassArgs(x.shape) :
          Returns(a, band_pass_filter(x, a.Fp1[1], a.Fp2[1], a.filter_length,
                                        a.trans, a.trans, a.method, IirOf(a),
                                        a.picks, a.n_jobs, a.copy))

BandStop ==
    /\ args.entry = "none"
    /\ \E a \in BandStopArgs(x.shape) :
          Returns(a, band_stop_filter(x, a.Fp1, a.Fp2, a.filter_length,
                                        a.trans, a.trans, a.method, IirOf(a),
                                        a.picks, a.n_jobs, a.copy))

Notch ==
    /\ args.entry = "none"
    /\ \E a \in NotchArgs(x.shape) :
          Returns(a, notch_filter(x, a.freqs, a.filter_length, a.widths, a.trans,
                                    a.method, IirOf(a), a.fstat, a.picks, a.n_jobs,
                                    a.copy, a.share))

\* A direct call of _overlap_add_filter on a 2-D array (it works in place)
OverlapAdd ==
    /\ args.entry = "none"
    /\ Len(x.shape) = 2
    /\ \E a \in OverlapAddArgs(x.shape) :
          Returns(a, _overlap_add_filter([Untouched(x, "none") EXCEPT !.picks = a.picks],
                                           a.n_h, a.n_fft, a.zero_phase, a.n_jobs))

\* A direct call of construct_iir_filter with a dict of the caller
ConstructIir ==
    /\ args.entry = "none"
    /\ \E a \in ConstructArgs(x.shape) :
          LET c == construct_iir_filter(a.iir, a.return_copy)
          IN  Returns(a, WithIir(Untouched(x, c.err), c, a.iir))

Next ==
    \/ Allocate
    \/ ConstructIir
    \/ LowPass
    \/ HighPass
    \/ BandPass
    \/ BandStop
    \/ Notch
    \/ OverlapAdd

Spec == Init /\ [][Next]_vars

(***************************************************************************)
(* A second state machine: _overlap_add_filter on an array of one channel, *)
(* followed through _1d_overlap_filter statement by statement.             *)
(***************************************************************************)
\* The errors raised while the FFT length is determined and checked
PlanningErrors ==
    {"attempt to get argmin of an empty sequence",
     "n_fft is too short, has to be at least len(h)",
     "negative dimensions are not allowed"}

\* The channels: ramps x[i] = a + b * i of 1..MaxL samples
Ramp(a, b, L) == [i \in 1..L |-> a + b * (i - 1)]

Channels == {Ramp(a, b, L) : a \in {0, 3}, b \in {0 - 1, 0, 2}, L \in 1..MaxL}

OlaInit ==
    /\ x = FreshArray(<<1>>)
    /\ xf = NoResult
    /\ err = "none"
    /\ args = DefArgs
    /\ out = NoOut
    /\ defaults = [f \in Public |-> DefaultIir]
    /\ ola \in {[OlaIdle EXCEPT !.pc = "call", !.x = c, !.n_h = n_h,
                                 !.n_fft_arg = n_fft, !.zero_phase = zp] :
                   c \in Channels, n_h \in 1..MaxTaps,
                   n_fft \in {NoFft} \cup 1..MaxNfft, zp \in BOOLEAN}

\* Lines 82-122 of _overlap_add_filter: the plan for the channel
OlaPlan ==
    /\ ola.pc = "call"
    /\ LET R == _overlap_add_filter(
                    Untouched(FreshArray(<<1, Len(ola.x)>>), "none"),
                    ola.n_h, ola.n_fft_arg, ola.zero_phase, "1")
       IN  ola' = IF R.err \in PlanningErrors
                  THEN [ola EXCEPT !.pc = "raised", !.err = R.err]
                  ELSE [ola EXCEPT !.pc = "planned",
                                   !.n_edge = Min(ola.n_h, Len(ola.x)),
                                   !.n_x = R.n_x, !.n_fft = R.n_fft,
                                   !.n_seg = R.n_seg,
                                   !.n_segments = R.n_segments,
                                   !.taps = ScaledTaps(ola.n_h, R.n_fft,
                                                       ola.zero_phase)]
    /\ UNCHANGED <<x, xf, err, args, out, defaults>>

\* Lines 149-153 of _1d_overlap_filter
OlaExtend ==
    /\ ola.pc = "planned"
    /\ LET x_ext == MirrorExtend(ola.x, ola.n_edge)
       IN  ola' = [ola EXCEPT !.pc = "loop", !.x_ext = x_ext,
                              !.filter_input = x_ext,
                              !.x_filtered = Zeros(Len(x_ext)),
                              !.pass_no = 0, !.seg_idx = 0]
    /\ UNCHANGED <<x, xf, err, args, out, defaults>>

\* Lines 162-170: one round of the segment loop
OlaSegment ==
    /\ ola.pc = "loop"
    /\ ola.seg_idx < ola.n_segments
    /\ LET s == ola.seg_idx * ola.n_seg
           prod == SegmentProd(Len(ola.filter_input), s, ola.n_seg,
                               ola.n_fft, ola.taps)
       IN  ola' = [ola EXCEPT !.x_filtered = AddBlock(@, prod, s, ola.n_fft),
                              !.seg_idx = @ + 1]
    /\ UNCHANGED <<x, xf, err, args, out, defaults>>

\* Lines 155-160: the second pass starts.  filter_input becomes a flipped
\* view of the array the first pass filled, and the name x_filtered is bound
\* to a new array of zeros, so the blocks of the second pass are added into
\* the new array and the one filter_input views is written no more.  flips
\* counts the np.flipud calls of the channel.
OlaSecondPass ==
    /\ ola.pc = "loop"
    /\ ola.seg_idx = ola.n_segments
    /\ ola.zero_phase /\ ola.pass_no = 0
    /\ ola' = [ola EXCEPT !.filter_input = flipud(ola.x_filtered),
                          !.flips = @ + 1,
                          !.x_filtered = Zeros(Len(ola.x_ext)),
                          !.pass_no = 1, !.seg_idx = 0]
    /\ UNCHANGED <<x, xf, err, args, out, defaults>>

\* Lines 172-180: the edges are stripped and the result is returned
OlaReturn ==
    /\ ola.pc = "loop"
    /\ ola.seg_idx = ola.n_segments
    /\ ola.zero_phase => ola.pass_no = 1
    /\ LET stripped == StripEdges(ola.x_filtered, ola.n_edge)
       IN  ola' = [ola EXCEPT !.pc = "returned",
                              !.flips = IF ola.zero_phase THEN @ + 1 ELSE @,
                              !.x_filtered = IF ola.zero_phase
                                             THEN flipud(stripped)
                                             ELSE stripped]
    /\ UNCHANGED <<x, xf, err, args, out, defaults>>

\* Line 130: x[p] = the returned channel
OlaStore ==
    /\ ola.pc = "returned"
    /\ ola' = IF Len(ola.x_filtered) = Len(ola.x)
              THEN [ola EXCEPT !.pc = "stored"]
              ELSE [ola EXCEPT !.pc = "raised",
                               !.err = "could not broadcast input array"]
    /\ UNCHANGED <<x, xf, err, args, out, defaults>>

OlaNext ==
    \/ OlaPlan
    \/ OlaExtend
    \/ OlaSegment
    \/ OlaSecondPass
    \/ OlaReturn
    \/ OlaStore

OlaSpec == OlaInit /\ [][OlaNext]_vars

(***************************************************************************)
(* Properties                                                              *)
(***************************************************************************)
\* The caller's array as it was when the call was made
Before == FreshArray(args.shape)

\* C1 (as claimed): the length N handed to firwin2 is even when the gain at
\* Nyquist is 1 and odd when it is 0, in both engines of _filter.
C1_NyquistParity ==
    out.N > 0 =>
        /\ (out.gain_nyq = 1 => out.N % 2 = 0)
        /\ (out.gain_nyq = 0 => out.N % 2 = 1)

\* The fatal errors C2 lists
FatalErrors ==
    {"method should be fft or iir",
     "method should be fft, iir, or spectrum_fit",
     "Filter specification invalid: Stop frequency too low",
     "Filter specification invalid: Lower stop frequency too low",
     "Stop bands are not sufficiently separated.",
     "freqs=None can only be used with method spectrum_fit",
     "notch_widths must be >= 0",
     "notch_widths must be None, scalar, or the same length as freqs",
     "Fp1 and Fp2 must be the same length",
     "n_jobs must be an integer, or cuda",
     "n_jobs must be an integer for IIR filtering",
     "n_jobs must be an integer",
     "n_fft is too short, has to be at least len(h)"}

\* C2 (as claimed): a call with copy=False that is rejected with a fatal
\* error leaves the caller's array as it was, values and shape.
C2_FatalBeforeMutation ==
    (args.entry # "none" /\ ~args.copy /\ err \in FatalErrors) => x = Before

\* The rows a call is asked to filter
Picked == IF args.picks = NoPicks THEN 1..NRows(args.shape) ELSE Range(args.picks)

\* C3: with copy=True the caller's array is never modified, whether the call
\* succeeds or fails; with copy=False a successful call returns the caller's
\* buffer, and the rows it was asked to filter are filtered there.
C3_CopyFlag ==
    args.entry \in Public =>
        /\ args.copy => x = Before
        /\ (~args.copy /\ err = "none") =>
              /\ xf.buf = "caller"
              /\ xf.rows = x.rows
              /\ \A p \in Picked : x.rows[p].ops # <<>>

\* A successful copy=True call that filtered rows of the copy only
C3_Witness ==
    /\ args.entry \in Public /\ args.copy /\ err = "none"
    /\ xf.buf = "copy" /\ xf.rows # x.rows /\ x = Before

\* C4: a successful call returns an array of the input's shape, whatever the
\* number of leading dimensions, with one row per channel.
C4_ShapeRoundTrip ==
    (args.entry \in Public /\ err = "none") =>
        /\ xf.shape = args.shape
        /\ x.shape = args.shape
        /\ Len(xf.rows) = NRows(args.shape)

\* A successful in-place call on a 3-D input whose rows were filtered
C4_Witness ==
    /\ args.entry \in Public /\ err = "none" /\ ~args.copy
    /\ Len(args.shape) = 3 /\ xf.shape = args.shape
    /\ \E p \in 1..Len(xf.rows) : xf.rows[p].ops # <<>>

\* C5 (as claimed): _filter uses the direct engine exactly when filter_length
\* is None or the channel is strictly shorter than filter_length.
C5_EngineDispatch ==
    (args.entry \in Public /\ out.engine \in {"direct", "overlap_add"}) =>
        (out.engine = "direct" <=>
            (args.filter_length = NoLen \/ Last(args.shape) < args.filter_length))

\* n_tot of the planner: 2 * n_x for zero-phase filtering (_filter always
\* filters zero-phase, which is also the default of args.zero_phase)
NTot == IF args.zero_phase THEN 2 * out.n_x ELSE out.n_x

\* C6 (as claimed): in the search branch the FFT size is the 2^k of least
\* cost over ceil(log2 n_h) <= k <= floor(log2 n_tot), both bounds included.
C6_BlockSizeSearch ==
    out.plan = "search" =>
        \E k \in CeilLog2(out.n_h)..FloorLog2(NTot) :
            /\ out.n_fft = Pow2(k)
            /\ \A j \in CeilLog2(out.n_h)..FloorLog2(NTot) :
                  Cost(NTot, out.n_h, k) <= Cost(NTot, out.n_h, j)

\* The single block: the least power of two >= n_x + n_h - 1, one segment
SingleBlock ==
    /\ is_power2(out.n_fft)
    /\ out.n_fft >= out.n_x + out.n_h - 1
    /\ out.n_fft \div 2 < out.n_x + out.n_h - 1
    /\ out.n_seg >= out.n_x
    /\ out.n_segments = 1

\* C7 (as claimed): with n_fft=None the planner uses a single block exactly
\* when n_tot <= n_h, and then the block holds the whole linear convolution.
C7_SingleBlockOnNTot ==
    out.plan \in {"search", "single"} =>
        /\ out.plan = "single" <=> NTot <= out.n_h
        /\ out.plan = "single" => SingleBlock

\* C7 (amended): with n_fft=None the planner uses a single block exactly
\* when n_x <= n_h, zero-phase or not, and then the block holds the whole
\* linear convolution in one segment.
C7_SingleBlockOnNx ==
    out.plan \in {"search", "single"} =>
        /\ out.plan = "single" <=> out.n_x <= out.n_h
        /\ out.plan = "single" => SingleBlock

\* A zero-phase call that completed on a single block although 2 * n_x > n_h
C7_Witness ==
    /\ out.plan = "single" /\ args.zero_phase /\ 2 * out.n_x > out.n_h
    /\ err = "none" /\ out.n_segments = 1
    /\ \E p \in 1..Len(x.rows) : x.rows[p].ops # <<>>

\* C8 (as claimed): an explicit n_fft is rejected with 'n_fft is too short,
\* has to be at least len(h)' exactly when n_fft < len(h), and no row has
\* been processed then.
C8_ShortBlockFatal ==
    (args.entry = "overlap_add" /\ args.n_fft # NoFft) =>
        /\ args.n_fft < args.n_h <=>
              err = "n_fft is too short, has to be at least len(h)"
        /\ args.n_fft < args.n_h => x = Before

\* notch_widths as the spectrum-fit call received it
EntryWidths ==
    LET w == NotchWidths(args.freqs, args.widths)
    IN  [i \in 1..Len(w) |-> Rat(w[i])]

\* C9 (as claimed): a spectrum_fit call with explicit frequencies leaves the
\* shared notch_widths as it was, and every channel is processed with half
\* the widths valid at call entry.
C9_SharedReadOnly ==
    (args.entry = "notch" /\ args.method = "spectrum_fit"
        /\ args.freqs # NoFreqs /\ err = "none") =>
        /\ out.nw = EntryWidths
        /\ \A i \in 1..Len(out.used) :
              out.used[i] = [j \in 1..Len(EntryWidths) |-> Halve(EntryWidths[j])]

\* C10 (as claimed): on the n_jobs > 1 path every row of the result holds
\* what was computed from that same row.
C10_OrderPreserving ==
    (args.entry \in Public /\ args.n_jobs = "2" /\ err = "none") =>
        \A p \in 1..Len(xf.rows) : xf.rows[p].orig = p

\* The bins C11 names for a channel of the call: the bin nearest to each
\* requested frequency, and every bin strictly within half the notch width
\* (as the call received it) of a requested frequency
ClaimedBins ==
    LET T == Last(args.shape)
    IN  {NearestBin(args.freqs[i], T) : i \in 1..Len(args.freqs)}
        \cup {k \in MtBins(T) :
                 \E i \in 1..Len(args.freqs) :
                     InNotch(k, args.freqs[i], Halve(EntryWidths[i]), T)}

\* C11 (as claimed): with explicit line frequencies the bins removed from
\* every processed channel are exactly the nearest bin of each requested
\* frequency and the bins strictly within half its notch width.
C11_ExplicitSelection ==
    (args.entry = "notch" /\ args.method = "spectrum_fit"
        /\ args.freqs # NoFreqs /\ err = "none") =>
        \A p \in Picked : xf.rows[p].ops = <<Tag("mt", <<>>, ClaimedBins)>>

\* A successful spectrum_fit call
FitDone == args.entry = "notch" /\ args.method = "spectrum_fit" /\ err = "none"

\* C12 (as claimed): every spectrum_fit call logs one report for each
\* processed channel, with explicit frequencies as well as in auto-detect.
C12_ReportEveryCall ==
    FitDone => Len(out.log) = Cardinality(Picked)

\* C12 (amended): in auto-detect mode a spectrum_fit call logs one report
\* for each processed channel, holding the bins removed from it, also when
\* there are none; with explicit frequencies it logs no report.
C12_ReportInAutoDetect ==
    FitDone =>
        IF args.freqs = NoFreqs
        THEN /\ Len(out.log) = Cardinality(Picked)
             /\ \A i \in 1..Len(out.log) :
                   out.log[i] = Significant(args.fstat, Last(args.shape))
        ELSE out.log = <<>>

\* An auto-detect call on two channels that found no line and reported so
C12_Witness ==
    /\ FitDone /\ args.freqs = NoFreqs
    /\ out.log = <<{}, {}>>
    /\ \A p \in 1..Len(xf.rows) : xf.rows[p].ops # <<>>

\* C15: in auto-detect mode a bin whose F-statistic denominator is zero is
\* never among the bins removed and reported, whatever its numerator.
C15_ZeroResidualNotFlagged ==
    (FitDone /\ args.freqs = NoFreqs) =>
        \A p \in 1..Len(xf.rows) : \A i \in 1..Len(xf.rows[p].ops) :
            \A k \in xf.rows[p].ops[i].s : args.fstat.stat[k + 1].den # 0

\* An auto-detect call that removed bin 0 and left alone bin 1, which has a
\* zero denominator and a large numerator
C15_Witness ==
    /\ FitDone /\ args.freqs = NoFreqs /\ Last(args.shape) >= 2
    /\ args.fstat.stat[2].den = 0 /\ args.fstat.stat[2].num > 0
    /\ \E p \in 1..Len(xf.rows) : xf.rows[p].ops = <<Tag("mt", <<>>, {0})>>

\* A band_stop_filter call with method='fft' that passed the checks made
\* before the control points are built (lines 662-678)
StopChecked ==
    /\ args.entry = "band_stop" /\ args.method = "fft"
    /\ Len(args.Fp1) = Len(args.Fp2)
    /\ \A i \in 1..Len(args.Fp1) : args.Fp1[i] + args.trans > 0

\* The control points of the call, sorted by frequency
CallPoints ==
    StopPoints(args.Fp1, [i \in 1..Len(args.Fp1) |-> args.Fp1[i] + args.trans],
               [i \in 1..Len(args.Fp2) |-> args.Fp2[i] - args.trans], args.Fp2)

\* Three consecutive gains 1, 0, 1 or 0, 1, 0
IsolatedGain(pts) ==
    \E i \in 1..(Len(pts) - 2) :
        pts[i].g = pts[i + 2].g /\ pts[i + 1].g # pts[i].g

\* The bands Fp1[i]..Fp2[i], transition bands included, are pairwise disjoint
BandsDisjoint ==
    \A i, j \in 1..Len(args.Fp1) :
        i # j => (args.Fp2[i] < args.Fp1[j] \/ args.Fp2[j] < args.Fp1[i])

\* Every band has its two transition bands on the two sides of its stop band
BandsWellFormed ==
    \A i \in 1..Len(args.Fp1) :
        args.Fp1[i] + args.trans <= args.Fp2[i] - args.trans

Separation == "Stop bands are not sufficiently separated."

C16_DefaultsSurvive ==
    /\ defaults = [f \in Public |-> DefaultIir]
    /\ (args.entry \in Public /\ args.iir = NoDict /\ out.coef # "none") =>
          (out.coef = "iirfilter" /\ out.padlen = "estimated")

\* An in-place band-stop call on two bands with the default dict: two
\* designs from the same dict, both applied
C16_Witness ==
    /\ args.entry = "band_stop" /\ args.method = "iir" /\ args.iir = NoDict
    /\ Len(args.Fp1) = 2 /\ ~args.copy /\ err = "none"
    /\ out.coef = "iirfilter"
    /\ \E p \in 1..Len(x.rows) : Len(x.rows[p].ops) = 2

\* The errors construct_iir_filter raises
ConstructErrors ==
    {"ftype must be an entry in iir_params", "ftype must be in filter_dict",
     "iir_params must have at least gstop and gpass"}

\* C17: construct_iir_filter takes 'b' and 'a' from the dict when both are
\* there; otherwise it fails without a known 'ftype', designs by order when
\* 'order' is there, and by gpass / gstop only without 'order', failing when
\* one of the two is missing; 'padlen' is kept when given, else estimated.
C17_IirTriage ==
    out.iir_arg # NoDict =>
        LET keys == IirOf(args).keys
            ftype == IirOf(args).ftype
        IN  /\ {"a", "b"} \subseteq keys =>
                  (out.coef = "given" /\ err \notin ConstructErrors)
            /\ ~({"a", "b"} \subseteq keys) =>
                  IF "ftype" \notin keys
                      THEN err = "ftype must be an entry in iir_params"
                  ELSE IF ftype \notin filter_dict
                      THEN err = "ftype must be in filter_dict"
                  ELSE IF "order" \in keys
                      THEN out.coef = "iirfilter" /\ err \notin ConstructErrors
                  ELSE IF {"gpass", "gstop"} \subseteq keys
                      THEN out.coef = "iirdesign" /\ err \notin ConstructErrors
                  ELSE err = "iir_params must have at least gstop and gpass"
            /\ err \in ConstructErrors => out.coef = "none"
            /\ out.coef # "none" =>
                  out.padlen = IF "padlen" \in keys THEN "given" ELSE "estimated"

\* A dict with 'b' but no 'a', with 'order' and 'padlen': designed by order,
\* pad length kept
C17_Witness ==
    /\ args.iir.keys = {"b", "order", "ftype", "padlen"}
    /\ out.coef = "iirfilter" /\ out.padlen = "given" /\ err = "none"

\* C20 (as claimed): with n_fft=None the planner ends without error, with a
\* power of two n_fft >= n_h, and n_segments segments of n_seg >= 1 samples
\* that cover the n_x samples of the extended signal with none left over.
C20_UsablePlan ==
    (args.entry = "overlap_add" /\ args.n_fft = NoFft) =>
        /\ err \notin PlanningErrors
        /\ is_power2(out.n_fft) /\ out.n_fft >= out.n_h
        /\ out.n_seg = out.n_fft - out.n_h + 1 /\ out.n_seg >= 1
        /\ out.n_segments * out.n_seg >= out.n_x
        /\ out.n_x > (out.n_segments - 1) * out.n_seg

\* C13: the extension of a ramp of slope b has n_edge - 1 more samples at
\* each end, holds the channel between them, and any two consecutive
\* samples of it differ by b.
C13_RampExtension ==
    ola.x_ext # <<>> =>
        LET L == Len(ola.x)
            b == IF L >= 2 THEN ola.x[2] - ola.x[1] ELSE 0
            e == ola.n_edge - 1
        IN  /\ ola.n_edge \in 1..L
            /\ Len(ola.x_ext) = L + 2 * e
            /\ SubSeq(ola.x_ext, e + 1, e + L) = ola.x
            /\ \A i \in 1..(Len(ola.x_ext) - 1) :
                  ola.x_ext[i + 1] - ola.x_ext[i] = b

\* A sloping ramp extended by two or more samples at each end
C13_Witness ==
    /\ Len(ola.x) >= 3 /\ ola.x[2] # ola.x[1] /\ ola.n_edge >= 3
    /\ Len(ola.x_ext) = Len(ola.x) + 2 * (ola.n_edge - 1)

\* The first n_x samples of the linear convolution of a pass input of n_x
\* samples with the taps
LinearConv(n_x, taps) ==
    [m \in 1..n_x |->
        SetToBag({q \in (0..(n_x - 1)) \X taps : q[1] + q[2] = m - 1})]

\* C18 (as claimed): when a pass of _1d_overlap_filter has added its last
\* block, the output holds the first n_x samples of the linear convolution
\* of the pass input with the kernel: every product once, none wrapped.
C18_LinearConvolution ==
    (ola.pc = "loop" /\ ola.seg_idx = ola.n_segments) =>
        ola.x_filtered = LinearConv(Len(ola.x_ext), ola.taps)

\* C19 (as claimed): the extended channel has the n_x samples the planner
\* counted, and the channel returned after the edges are stripped has the
\* length of the channel passed in and is stored into its row.
C19_LengthRestored ==
    /\ ola.x_ext # <<>> => Len(ola.x_ext) = ola.n_x
    /\ ola.pc = "returned" => Len(ola.x_filtered) = Len(ola.x)
    /\ ola.err # "could not broadcast input array"

\* The cascade of the IIR band-stop filters of the bands 1..k
Cascade(k) == [i \in 1..k |-> Tag("iir", <<i>>, {})]

\* C21 (as claimed): a successful band_stop_filter call with method='iir'
\* on two or more bands returns, in every row it was asked to filter, the
\* cascade of all the band filters, with copy=True as with copy=False.
C21_EveryBandApplied ==
    (args.entry = "band_stop" /\ args.method = "iir" /\ err = "none"
        /\ Len(args.Fp1) >= 2) =>
        \A p \in Picked : xf.rows[p].ops = Cascade(Len(args.Fp1))

\* A successful call that ran one filtering engine once over the rows: any
\* public filter or _overlap_add_filter, except an IIR band-stop over
\* several bands (one filtfilt run per band)
OneEngineRun ==
    /\ args.entry \in Public \cup {"overlap_add"}
    /\ err = "none"
    /\ ~(args.method = "iir" /\ args.entry = "band_stop" /\ Len(args.Fp1) >= 2)
    /\ ~(args.method = "iir" /\ args.entry = "notch" /\ Len(args.freqs) >= 2)

\* C22 (as claimed): in the array a successful call returns, every row
\* outside picks is as it was, every row in picks holds one filter
\* application computed from that same row, and picks=None covers every row;
\* for every engine, serial or parallel.
C22_PicksFrame ==
    OneEngineRun =>
        \A p \in 1..Len(xf.rows) :
            IF p \in Picked
            THEN xf.rows[p].orig = p /\ Len(xf.rows[p].ops) = 1
            ELSE xf.rows[p] = Row0(p)

\* What a pass of the channel has put into a zero buffer after its first k
\* segments; PassOutput is the complete output of a pass
RECURSIVE PassPrefix(_)
PassPrefix(k) ==
    IF k = 0 THEN Zeros(Len(ola.x_ext))
    ELSE AddBlock(PassPrefix(k - 1),
                  SegmentProd(Len(ola.x_ext), (k - 1) * ola.n_seg, ola.n_seg,
                              ola.n_fft, ola.taps),
                  (k - 1) * ola.n_seg, ola.n_fft)

PassOutput == PassPrefix(ola.n_segments)

\* The first pass reads the extended channel, before any time reversal
C23_FirstPass ==
    (ola.pc = "loop" /\ ola.pass_no = 0) =>
        ola.filter_input = ola.x_ext /\ ola.flips = 0

\* A second pass runs in zero-phase mode only; it reads the time-reversed
\* complete output of the first pass, which stays as it is while the blocks
\* are added into a buffer that started as zeros
C23_SecondPass ==
    (ola.pc = "loop" /\ ola.pass_no = 1) =>
        /\ ola.zero_phase
        /\ ola.flips = 1
        /\ ola.filter_input = flipud(PassOutput)
        /\ ola.x_filtered = PassPrefix(ola.seg_idx)

\* Causal mode returns after one pass without any time reversal
C23_CausalReturn ==
    (ola.pc \in {"returned", "stored"} /\ ~ola.zero_phase) =>
        /\ ola.pass_no = 0 /\ ola.flips = 0
        /\ ola.filter_input = ola.x_ext
        /\ ola.x_filtered = StripEdges(PassOutput, ola.n_edge)

\* Zero-phase mode returns after two passes and two time reversals, and
\* sample r of the returned channel is the sample of the re-reversed second
\* pass output at the place of sample r of the channel in the extension
C23_ZeroPhaseSamples ==
    (ola.pc \in {"returned", "stored"} /\ ola.zero_phase) =>
        /\ ola.pass_no = 1 /\ ola.flips = 2
        /\ ola.filter_input = flipud(PassOutput)
        /\ \A r \in 1..Len(ola.x_filtered) :
              ola.x_filtered[r] = At(flipud(PassOutput), ola.n_edge - 1 + r - 1)

\* The returned zero-phase channel has one sample for each input sample
C23_ZeroPhaseAligned ==
    (ola.pc \in {"returned", "stored"} /\ ola.zero_phase) =>
        Len(ola.x_filtered) = Len(ola.x)

\* C23 (as claimed): causal mode runs one overlap-add pass and no time
\* reversal; zero-phase mode runs two passes, the second on the
\* time-reversed complete output of the first, which is not altered while
\* the second accumulates into a fresh zero buffer; the result is reversed
\* once more, and the returned channel is aligned sample for sample with
\* the input after the edges are stripped.
C23_PassOrdering ==
    /\ C23_FirstPass
    /\ C23_SecondPass
    /\ C23_CausalReturn
    /\ C23_ZeroPhaseSamples
    /\ C23_ZeroPhaseAligned

====
